---- MODULE Spec2Model ----
(***************************************************************************)
(* A model of adept/modules/spatial.py: the shape helper                   *)
(* calc_conv_output_dim, the layer-normalised convolutional LSTM cell      *)
(* ConvLSTMCellLayerNorm and the pre-activation residual block             *)
(* Residual2DPreact.                                                       *)
(*                                                                         *)
(* A tensor is a shape together with a symbolic term that records which    *)
(* operations produced it from which operands, so that two tensors are     *)
(* equal exactly when they were computed the same way from the same data.  *)
(* Tensors live in a heap of named storages: an in-place operation         *)
(* rewrites the storage its operand refers to, an out-of-place operation   *)
(* fills a new one.                                                        *)
(***************************************************************************)
EXTENDS Integers, Sequences, FiniteSets, TLC

\* ------------------------------------------------------------------ bounds
MaxDim == 4
MaxKernel == 3
MaxStride == 2
MaxPad == 1
MaxDilation == 2
MaxSteps == 2
MaxCalls == 2

\* calc:  a call of calc_conv_output_dim: its arguments and, once done, result
\* cell:  the attributes and layers of a ConvLSTMCellLayerNorm
\* heap:  the cell's parameters and the caller's tensors x, h, c
\* ret:   the latest call of the cell's forward and the one before it
\* steps: how many times the caller fed a returned state back
\* block: the attributes and layers of a Residual2DPreact
\* bheap: the block's parameters and buffers and the caller's tensor x
\* bret:  the latest call of the block's forward
VARIABLES calc, cell, heap, ret, steps, block, bheap, bret

vars == <<calc, cell, heap, ret, steps, block, bheap, bret>>
dimVars == <<calc>>
lstmVars == <<cell, heap, ret, steps>>
blockVars == <<block, bheap, bret>>

\* ------------------------------------------------------- terms and tensors
Tm(op, attr, args) == [op |-> op, attr |-> attr, args |-> args]
Leaf(name) == Tm(name, <<>>, <<>>)

NoErr == ""
Tensor(shape, term) == [err |-> NoErr, shape |-> shape, term |-> term]
Raise(e) == [err |-> e, shape |-> <<>>, term |-> Leaf("error")]
Ok(t) == t.err = NoErr

\* the first error among the operands, as Python raises it
FirstErr(ts) ==
    IF \E i \in 1..Len(ts) : ~Ok(ts[i])
    THEN LET i == CHOOSE j \in 1..Len(ts) :
                    ~Ok(ts[j]) /\ \A k \in 1..(j - 1) : Ok(ts[k])
         IN ts[i].err
    ELSE NoErr

Max(a, b) == IF a >= b THEN a ELSE b
Min(a, b) == IF a <= b THEN a ELSE b

\* int(a / b) of Python: true division, then truncation toward zero
IntTrunc(a, b) ==
    IF (a >= 0) = (b > 0) \/ a = 0
    THEN (IF a >= 0 THEN a ELSE -a) \div (IF b >= 0 THEN b ELSE -b)
    ELSE -((IF a >= 0 THEN a ELSE -a) \div (IF b >= 0 THEN b ELSE -b))

\* a // b of Python: the quotient rounded toward minus infinity
FloorDiv(a, b) == a \div b

\* ---------------------------------------------------- calc_conv_output_dim
\* variant: the quotient truncated toward zero, as int(numerator / stride)
calc_conv_output_dim_trunc(dim_size, kernel_size, stride, padding, dilation) ==
    LET numerator == dim_size + 2 * padding - dilation * (kernel_size - 1) - 1
    IN  IntTrunc(numerator, stride) + 1

calc_conv_output_dim(dim_size, kernel_size, stride, padding, dilation) ==
    LET numerator == dim_size + 2 * padding - dilation * (kernel_size - 1) - 1
    IN  FloorDiv(numerator, stride) + 1

DimArgs(dim_size, kernel_size, stride, padding, dilation) ==
    [dim_size |-> dim_size, kernel_size |-> kernel_size, stride |-> stride,
     padding |-> padding, dilation |-> dilation]

\* the arguments tried: a small box around the origin and the two documented
\* calls (10, 3, 1, 1, 1) and (10, 3, 2, 1, 1)
DimInputs ==
    [dim_size : (-1)..MaxDim, kernel_size : 1..MaxKernel, stride : 1..MaxStride,
     padding : 0..MaxPad, dilation : 1..MaxDilation]
    \cup {DimArgs(10, 3, 1, 1, 1), DimArgs(10, 3, 2, 1, 1)}

CalcIdle == [args |-> DimArgs(1, 1, 1, 0, 1), done |-> FALSE, out |-> 0]

CalcDim ==
    /\ ~calc.done
    /\ calc' = [calc EXCEPT
                  !.done = TRUE,
                  !.out = calc_conv_output_dim(calc.args.dim_size,
                              calc.args.kernel_size, calc.args.stride,
                              calc.args.padding, calc.args.dilation)]
    /\ UNCHANGED <<lstmVars, blockVars>>

\* ------------------------------------------------- tensor library, by value
\* torch's own output size of a convolution with dilation 1
ConvOutSize(n, k, s, p) == ((n + 2 * p - (k - 1) - 1) \div s) + 1

RECURSIVE Terms(_)
Terms(ts) == IF ts = <<>> THEN <<>> ELSE <<Head(ts).term>> \o Terms(Tail(ts))

\* nn.Conv2d applied to a tensor: layer is the layer's configuration, ps its
\* parameters (the weight, then the bias when the layer has one)
Conv2d(layer, ps, t) ==
    IF FirstErr(ps \o <<t>>) # NoErr THEN Raise(FirstErr(ps \o <<t>>))
    ELSE IF Len(t.shape) # 4 \/ t.shape[2] # layer.in_channels
         THEN Raise("RuntimeError")
    ELSE IF t.shape[3] + 2 * layer.padding < layer.kernel_size
            \/ t.shape[4] + 2 * layer.padding < layer.kernel_size
         THEN Raise("RuntimeError")
    ELSE Tensor(<<t.shape[1], layer.out_channels,
                  ConvOutSize(t.shape[3], layer.kernel_size, layer.stride, layer.padding),
                  ConvOutSize(t.shape[4], layer.kernel_size, layer.stride, layer.padding)>>,
                Tm("conv2d", <<layer.stride, layer.padding>>,
                   Terms(ps) \o <<t.term>>))

\* broadcasting of two shapes of equal rank
Broadcastable(s1, s2) ==
    /\ Len(s1) = Len(s2)
    /\ \A i \in 1..Len(s1) : s1[i] = s2[i] \/ s1[i] = 1 \/ s2[i] = 1
RECURSIVE BroadcastShape(_, _)
BroadcastShape(s1, s2) ==
    IF s1 = <<>> THEN <<>>
    ELSE <<Max(Head(s1), Head(s2))>> \o BroadcastShape(Tail(s1), Tail(s2))

Elementwise(op, a, b) ==
    IF FirstErr(<<a, b>>) # NoErr THEN Raise(FirstErr(<<a, b>>))
    ELSE IF ~Broadcastable(a.shape, b.shape) THEN Raise("RuntimeError")
    ELSE Tensor(BroadcastShape(a.shape, b.shape), Tm(op, <<>>, <<a.term, b.term>>))

\* an in-place elementwise operation keeps the shape of its target
ElementwiseInto(op, a, b) ==
    IF FirstErr(<<a, b>>) # NoErr THEN Raise(FirstErr(<<a, b>>))
    ELSE IF ~Broadcastable(a.shape, b.shape)
            \/ BroadcastShape(a.shape, b.shape) # a.shape
         THEN Raise("RuntimeError")
    ELSE Tensor(a.shape, Tm(op, <<>>, <<a.term, b.term>>))

Unary(op, a) ==
    IF ~Ok(a) THEN a ELSE Tensor(a.shape, Tm(op, <<>>, <<a.term>>))

AddScalar(a, k) ==
    IF ~Ok(a) THEN a ELSE Tensor(a.shape, Tm("add_scalar", <<k>>, <<a.term>>))

\* channels lo..hi-1 of a tensor (a view along dim 1)
Narrow(t, lo, hi) ==
    IF ~Ok(t) THEN t
    ELSE Tensor(<<t.shape[1], hi - lo, t.shape[3], t.shape[4]>>,
                Tm("narrow", <<lo, hi>>, <<t.term>>))

\* the base tensor after its channels lo..hi-1 were overwritten by v
SliceAssign(t, lo, hi, v) ==
    IF FirstErr(<<t, v>>) # NoErr THEN Raise(FirstErr(<<t, v>>))
    ELSE Tensor(t.shape, Tm("slice_assign", <<lo, hi>>, <<t.term, v.term>>))

\* nn.LayerNorm over the last three dimensions
LayerNorm(layer, w, b, t) ==
    IF FirstErr(<<w, b, t>>) # NoErr THEN Raise(FirstErr(<<w, b, t>>))
    ELSE IF Len(t.shape) # 4
            \/ <<t.shape[2], t.shape[3], t.shape[4]>> # layer.normalized_shape
         THEN Raise("RuntimeError")
    ELSE Tensor(t.shape, Tm("layer_norm", <<>>, <<w.term, b.term, t.term>>))

\* -------------------------------------------------------------- the heap
Put(hp, name, val) == (name :> val) @@ hp
Ref(name) == [base |-> name, view |-> <<>>]
View(name, lo, hi) == [base |-> name, view |-> <<lo, hi>>]
Get(hp, r) ==
    IF r.view = <<>> THEN hp[r.base]
    ELSE Narrow(hp[r.base], r.view[1], r.view[2])
Set(hp, r, val) ==
    IF r.view = <<>> THEN Put(hp, r.base, val)
    ELSE Put(hp, r.base, SliceAssign(hp[r.base], r.view[1], r.view[2], val))
RECURSIVE Restrict(_, _)
Restrict(hp, names) ==
    IF (DOMAIN hp) \cap names = {} THEN <<>>
    ELSE LET n == CHOOSE m \in (DOMAIN hp) \cap names : TRUE
         IN  (n :> hp[n]) @@ Restrict(hp, names \ {n})
RECURSIVE Load(_, _)
Load(hp, names) ==
    IF names = <<>> THEN <<>> ELSE <<hp[Head(names)]>> \o Load(hp, Tail(names))

\* out-of-place operations fill the new storage dst
nn_Conv2d(hp, dst, layer, x) ==
    [heap |-> Put(hp, dst, Conv2d(layer, Load(hp, layer.params), Get(hp, x))),
     ref |-> Ref(dst)]

nn_LayerNorm(hp, dst, layer, x) ==
    [heap |-> Put(hp, dst, LayerNorm(layer, hp[layer.params[1]], hp[layer.params[2]],
                                      Get(hp, x))),
     ref |-> Ref(dst)]

torch_add(hp, dst, a, b) ==
    [heap |-> Put(hp, dst, Elementwise("add", Get(hp, a), Get(hp, b))), ref |-> Ref(dst)]

\* variant: a.mul_(b), which writes the product into a
torch_mul_inplace(hp, dst, a, b) ==
    [heap |-> Set(hp, a, ElementwiseInto("mul", Get(hp, a), Get(hp, b))), ref |-> a]

\* torch.mul(a, b)
torch_mul(hp, dst, a, b) ==
    [heap |-> Put(hp, dst, Elementwise("mul", Get(hp, a), Get(hp, b))), ref |-> Ref(dst)]

tanh(hp, dst, a) ==
    [heap |-> Put(hp, dst, Unary("tanh", Get(hp, a))), ref |-> Ref(dst)]

\* in-place operations rewrite the storage their target refers to
sigmoid_(hp, a) == [heap |-> Set(hp, a, Unary("sigmoid", Get(hp, a))), ref |-> a]
tanh_(hp, a) == [heap |-> Set(hp, a, Unary("tanh", Get(hp, a))), ref |-> a]
iadd(hp, a, k) == [heap |-> Set(hp, a, AddScalar(Get(hp, a), k)), ref |-> a]

\* torch.chunk(t, chunks, dim=1): views of ceil(C / chunks) channels each
torch_chunk(hp, a, chunks) ==
    LET t == Get(hp, a)
    IN  IF ~Ok(t) THEN [i \in 1..chunks |-> a]
        ELSE LET C == t.shape[2]
                 size == (C + chunks - 1) \div chunks
                 n == (C + size - 1) \div size
             IN  [i \in 1..n |-> View(a.base, (i - 1) * size, Min(i * size, C))]

\* ---------------------------------------------------- ConvLSTMCellLayerNorm
Chans == {1, 2}
HiddenSizes == {1, 2}
Batches == {1, 2}
ForgetBiases == {0, 1}
InputNames == {"x"}

ConvLayer(name, nb_in, nb_out, kernel_size, stride, padding, bias) ==
    [in_channels |-> nb_in, out_channels |-> nb_out, kernel_size |-> kernel_size,
     stride |-> stride, padding |-> padding,
     params |-> IF bias THEN <<name[1], name[2]>> ELSE <<name[1]>>]

LayerNormLayer(name, shape) == [normalized_shape |-> shape, params |-> name]

\* int((kernel_size - 1) / 2)
hidden_padding(kernel_size) == IntTrunc(kernel_size - 1, 2)

\* __init__: the attributes and submodules of a constructed cell
ConvLSTMCellLayerNorm(input_size, hidden_size, kernel_size, stride, padding, forget_bias) ==
    LET hh_input_size == calc_conv_output_dim(input_size[2], kernel_size, stride, padding, 1)
        ln_shape == <<hidden_size, hh_input_size, hh_input_size>>
    IN  [input_size |-> input_size,
         hidden_size |-> hidden_size,
         forget_bias |-> forget_bias,
         _hidden_padding |-> hidden_padding(kernel_size),
         ih |-> ConvLayer(<<"ih.weight">>, input_size[1], 4 * hidden_size,
                          kernel_size, stride, padding, FALSE),
         hh |-> ConvLayer(<<"hh.weight">>, hidden_size, 4 * hidden_size,
                          kernel_size, 1, hidden_padding(kernel_size), FALSE),
         ln_g_t |-> LayerNormLayer(<<"ln_g_t.weight", "ln_g_t.bias">>, ln_shape),
         ln_i_t |-> LayerNormLayer(<<"ln_i_t.weight", "ln_i_t.bias">>, ln_shape),
         ln_f_t |-> LayerNormLayer(<<"ln_f_t.weight", "ln_f_t.bias">>, ln_shape),
         ln_o_t |-> LayerNormLayer(<<"ln_o_t.weight", "ln_o_t.bias">>, ln_shape),
         ln_cell |-> LayerNormLayer(<<"ln_cell.weight", "ln_cell.bias">>, ln_shape)]

\* the parameters the constructor registers, each in a storage of its own
CellParamNames ==
    {"ih.weight", "hh.weight", "ln_g_t.weight", "ln_g_t.bias", "ln_i_t.weight",
     "ln_i_t.bias", "ln_f_t.weight", "ln_f_t.bias", "ln_o_t.weight", "ln_o_t.bias",
     "ln_cell.weight", "ln_cell.bias"}

CellParams(self) ==
    [n \in CellParamNames |->
        Tensor(IF n = "ih.weight"
               THEN <<self.ih.out_channels, self.ih.in_channels,
                      self.ih.kernel_size, self.ih.kernel_size>>
               ELSE IF n = "hh.weight"
               THEN <<self.hh.out_channels, self.hh.in_channels,
                      self.hh.kernel_size, self.hh.kernel_size>>
               ELSE self.ln_cell.normalized_shape,
               Leaf(n))]

\* variant: the names ft and ot bound the other way round
Unpack4_forget_output_swapped(hp, views) ==
    IF Len(views) = 4
    THEN [heap |-> hp, refs |-> <<views[1], views[3], views[2], views[4]>>]
    ELSE [heap |-> Put(hp, "unpack", Raise("ValueError")),
          refs |-> <<Ref("unpack"), Ref("unpack"), Ref("unpack"), Ref("unpack")>>]

\* it, ft, ot, gt = ...: unpacking anything but four values raises
Unpack4(hp, views) ==
    IF Len(views) = 4 THEN [heap |-> hp, refs |-> views]
    ELSE [heap |-> Put(hp, "unpack", Raise("ValueError")),
          refs |-> <<Ref("unpack"), Ref("unpack"), Ref("unpack"), Ref("unpack")>>]

\* the storages that outlive a call: the parameters and the caller's tensors
Persistent(hp, before) == Restrict(hp, DOMAIN before)

\* forward(x, hidden): x and hidden are references into the heap.  Each line
\* of the method is one binding; the call leaves the heap as its in-place
\* operations made it and records its local tensors in ret.
ConvLSTMCellLayerNorm_forward(self, x, hidden) ==
    \E h \in {hidden[1]}, c \in {hidden[2]} :
    \E i2h \in {nn_Conv2d(heap, "i2h", self.ih, x)} :
    \E h2h \in {nn_Conv2d(i2h.heap, "h2h", self.hh, h)} :
    \E preact \in {torch_add(h2h.heap, "preact", i2h.ref, h2h.ref)} :
    \E groups \in {Unpack4(preact.heap, torch_chunk(preact.heap, preact.ref, 4))} :
    \E it \in {groups.refs[1]}, ft \in {groups.refs[2]},
       ot \in {groups.refs[3]}, gt \in {groups.refs[4]} :
    \E i_t \in {LET n == nn_LayerNorm(groups.heap, "i_t", self.ln_i_t, it)
                IN  sigmoid_(n.heap, n.ref)} :
    \E f_ln \in {nn_LayerNorm(i_t.heap, "f_t", self.ln_f_t, ft)} :
    \E f_t \in {IF self.forget_bias # 0
                THEN LET b == iadd(f_ln.heap, f_ln.ref, self.forget_bias)
                     IN  sigmoid_(b.heap, b.ref)
                ELSE f_ln} :
    \E o_t \in {LET n == nn_LayerNorm(f_t.heap, "o_t", self.ln_o_t, ot)
                IN  sigmoid_(n.heap, n.ref)} :
    \E g_t \in {LET n == nn_LayerNorm(o_t.heap, "g_t", self.ln_g_t, gt)
                IN  tanh_(n.heap, n.ref)} :
    \E cf \in {torch_mul(g_t.heap, "c_mul_f", c, f_t.ref)} :
    \E ig \in {torch_mul(cf.heap, "i_mul_g", i_t.ref, g_t.ref)} :
    \E c_sum \in {torch_add(ig.heap, "c_sum", cf.ref, ig.ref)} :
    \E c_t \in {nn_LayerNorm(c_sum.heap, "c_t", self.ln_cell, c_sum.ref)} :
    \E c_tanh \in {tanh(c_t.heap, "c_tanh", c_t.ref)} :
    \E h_t \in {torch_mul(c_tanh.heap, "h_t", o_t.ref, c_tanh.ref)} :
    \E end \in {h_t.heap} :
    \E call \in {[x |-> x.base,
                  err |-> FirstErr(<<Get(end, i2h.ref), Get(end, h2h.ref),
                                     Get(end, preact.ref), Get(end, it),
                                     Get(end, i_t.ref), Get(end, f_t.ref),
                                     Get(end, o_t.ref), Get(end, g_t.ref),
                                     Get(end, cf.ref), Get(end, ig.ref),
                                     Get(end, c_sum.ref), Get(end, c_t.ref),
                                     Get(end, c_tanh.ref), Get(end, h_t.ref)>>),
                  result |-> <<Get(end, h_t.ref), Get(end, c_t.ref)>>,
                  i2h |-> Get(end, i2h.ref),
                  h2h |-> Get(end, h2h.ref),
                  preact |-> Get(end, preact.ref),
                  groups |-> <<it.view, ft.view, ot.view, gt.view>>,
                  i_t |-> Get(end, i_t.ref),
                  f_t |-> Get(end, f_t.ref),
                  o_t |-> Get(end, o_t.ref),
                  g_t |-> Get(end, g_t.ref),
                  c_sum |-> Get(end, c_sum.ref)]} :
        /\ heap' = Persistent(end, heap)
        /\ ret' = <<call>> \o (IF ret = <<>> THEN <<>> ELSE <<ret[1]>>)

\* the cells that can be built and stepped: the gates' LayerNorms need a
\* spatial size of at least one
CellConfigs ==
    {cf \in [chan : Chans, dim : 1..MaxDim, hidden_size : HiddenSizes,
             kernel_size : 1..MaxKernel, stride : 1..MaxStride,
             padding : 0..MaxPad, forget_bias : ForgetBiases] :
        calc_conv_output_dim(cf.dim, cf.kernel_size, cf.stride, cf.padding, 1) >= 1}

\* the caller's tensors: an input of shape (B, C, D, D) and a state pair
\* of shape (B, hidden_size, hh_input_size, hh_input_size)
CallerTensors(self, B) ==
    LET state_shape == <<B>> \o self.ln_cell.normalized_shape
    IN  [n \in InputNames \cup {"h", "c"} |->
            IF n \in InputNames
            THEN Tensor(<<B>> \o self.input_size, Leaf(n))
            ELSE Tensor(state_shape, Leaf(n))]

\* one call forward(x, (h, c)); ret keeps this call and the one before it
LstmForward(xn) ==
    /\ ConvLSTMCellLayerNorm_forward(cell, Ref(xn), <<Ref("h"), Ref("c")>>)
    /\ UNCHANGED <<cell, steps, dimVars, blockVars>>

\* the caller feeds the returned pair back as the next state
LstmFeed ==
    /\ ret # <<>>
    /\ ret[1].err = NoErr
    /\ steps < MaxSteps
    /\ heap' = Put(Put(heap, "h", ret[1].result[1]), "c", ret[1].result[2])
    /\ ret' = <<>>
    /\ steps' = steps + 1
    /\ UNCHANGED <<cell, dimVars, blockVars>>

\* --------------------------------------------------------- Residual2DPreact
BatchNormLayer(name, num_features) == [num_features |-> num_features, params |-> name]

Counter(n) == Tensor(<<>>, Tm("count", <<n>>, <<>>))
CounterValue(t) == t.term.attr[1]

\* F.relu, out of place
relu(hp, dst, a) ==
    [heap |-> Put(hp, dst, Unary("relu", Get(hp, a))), ref |-> Ref(dst)]

\* the value of a batch normalisation: from the batch's own statistics in
\* training mode, from the running statistics in evaluation mode
BatchNorm(w, b, mean, var, training, t) ==
    IF training
    THEN Tensor(t.shape, Tm("batch_norm_train", <<>>, <<w.term, b.term, t.term>>))
    ELSE Tensor(t.shape, Tm("batch_norm_eval", <<>>,
                            <<w.term, b.term, mean.term, var.term, t.term>>))

RunningUpdate(stat, name, t) ==
    Tensor(stat.shape, Tm("running_update", <<>>,
                          <<stat.term, Tm(name, <<>>, <<t.term>>)>>))

\* F.batch_norm behind nn.BatchNorm2d.  In training mode the batch counter
\* is incremented first, a batch with a single value per channel is refused,
\* and the running statistics are updated in place; in evaluation mode the
\* running statistics are only read.
F_batch_norm(hp, dst, layer, training, x) ==
    LET t == Get(hp, x)
        w == hp[layer.params[1]]
        b == hp[layer.params[2]]
        mean == hp[layer.params[3]]
        var == hp[layer.params[4]]
        counted == IF training
                   THEN Put(hp, layer.params[5],
                            Counter(CounterValue(hp[layer.params[5]]) + 1))
                   ELSE hp
        tracked == IF training
                   THEN Put(Put(counted,
                                layer.params[3], RunningUpdate(mean, "batch_mean", t)),
                                layer.params[4], RunningUpdate(var, "batch_var", t))
                   ELSE hp
    IN  IF ~Ok(t) THEN [heap |-> Put(hp, dst, t), ref |-> Ref(dst)]
        ELSE IF Len(t.shape) # 4
        THEN [heap |-> Put(hp, dst, Raise("ValueError")), ref |-> Ref(dst)]
        ELSE IF training /\ t.shape[1] * t.shape[3] * t.shape[4] = 1
        THEN [heap |-> Put(counted, dst, Raise("ValueError")), ref |-> Ref(dst)]
        ELSE IF t.shape[2] # layer.num_features
        THEN [heap |-> Put(counted, dst, Raise("RuntimeError")), ref |-> Ref(dst)]
        ELSE [heap |-> Put(tracked, dst, BatchNorm(w, b, mean, var, training, t)),
              ref |-> Ref(dst)]

\* variant: a layer that always normalises as in training mode
nn_BatchNorm2d_ignores_mode(hp, dst, layer, training, x) ==
    F_batch_norm(hp, dst, layer, TRUE, x)

\* self.bn(x): the layer normalises in the mode the module is in
nn_BatchNorm2d(hp, dst, layer, training, x) ==
    F_batch_norm(hp, dst, layer, training, x)

\* variant: the two conditions joined by 'and'
needs_projection_and(nb_in_chan, nb_out_chan, stride) ==
    nb_in_chan # nb_out_chan /\ stride > 1

\* self.nb_in_chan != self.nb_out_chan or self.stride > 1
needs_projection(nb_in_chan, nb_out_chan, stride) ==
    nb_in_chan # nb_out_chan \/ stride > 1

\* variant: conv1 built without its stride
conv1_unstrided(nb_in_chan, nb_out_chan, stride) ==
    ConvLayer(<<"conv1.weight">>, nb_in_chan, nb_out_chan, 3, 1, 1, FALSE)

\* nn.Conv2d(nb_in_chan, nb_out_chan, 3, stride=stride, padding=1, bias=False)
conv1(nb_in_chan, nb_out_chan, stride) ==
    ConvLayer(<<"conv1.weight">>, nb_in_chan, nb_out_chan, 3, stride, 1, FALSE)

\* __init__: the attributes and submodules of a constructed block; the
\* attribute projection is set only under do_projection
Residual2DPreact(nb_in_chan, nb_out_chan, stride) ==
    LET do_projection == needs_projection(nb_in_chan, nb_out_chan, stride)
    IN  [nb_in_chan |-> nb_in_chan,
         nb_out_chan |-> nb_out_chan,
         stride |-> stride,
         training |-> TRUE,
         bn1 |-> BatchNormLayer(<<"bn1.weight", "bn1.bias", "bn1.running_mean",
                                  "bn1.running_var", "bn1.num_batches_tracked">>,
                                nb_in_chan),
         conv1 |-> conv1(nb_in_chan, nb_out_chan, stride),
         bn2 |-> BatchNormLayer(<<"bn2.weight", "bn2.bias", "bn2.running_mean",
                                  "bn2.running_var", "bn2.num_batches_tracked">>,
                                nb_out_chan),
         conv2 |-> ConvLayer(<<"conv2.weight">>, nb_out_chan, nb_out_chan, 3, 1, 1, FALSE),
         do_projection |-> do_projection,
         projection |-> IF do_projection
                        THEN <<ConvLayer(<<"projection.weight", "projection.bias">>,
                                         nb_in_chan, nb_out_chan, 3, stride, 1, TRUE)>>
                        ELSE <<>>]

\* a convolution weight after weight.data.mul_(relu_gain)
GainScaled(name, shape) ==
    Tensor(shape, Tm("mul_", <<>>, <<Leaf(name), Leaf("relu_gain")>>))

BlockBufferNames ==
    {"bn1.running_mean", "bn1.running_var", "bn1.num_batches_tracked",
     "bn2.running_mean", "bn2.running_var", "bn2.num_batches_tracked"}

BlockParamNames(self) ==
    {"bn1.weight", "bn1.bias", "conv1.weight", "bn2.weight", "bn2.bias", "conv2.weight"}
    \cup (IF self.projection # <<>> THEN {"projection.weight", "projection.bias"} ELSE {})

\* the parameters and buffers the constructor registers
BlockState(self) ==
    [n \in BlockParamNames(self) \cup BlockBufferNames |->
        IF n = "conv1.weight"
        THEN GainScaled(n, <<self.nb_out_chan, self.nb_in_chan, 3, 3>>)
        ELSE IF n = "conv2.weight"
        THEN GainScaled(n, <<self.nb_out_chan, self.nb_out_chan, 3, 3>>)
        ELSE IF n = "projection.weight"
        THEN GainScaled(n, <<self.nb_out_chan, self.nb_in_chan, 3, 3>>)
        ELSE IF n \in {"bn1.num_batches_tracked", "bn2.num_batches_tracked"}
        THEN Counter(0)
        ELSE IF n \in {"bn1.running_mean", "bn1.weight", "bn1.bias", "bn1.running_var"}
        THEN Tensor(<<self.nb_in_chan>>, Leaf(n))
        ELSE Tensor(<<self.nb_out_chan>>, Leaf(n))]

\* variant: without projection the skip is relu(bn1(x)) instead of x
skip_from_preactivation(self, hp, first, x) ==
    IF self.do_projection
    THEN IF self.projection # <<>>
         THEN nn_Conv2d(hp, "projection", self.projection[1], first)
         ELSE [heap |-> Put(hp, "projection", Raise("AttributeError")),
               ref |-> Ref("projection")]
    ELSE [heap |-> hp, ref |-> first]

\* if self.do_projection: projection = self.projection(first)
\* else: projection = x
skip_branch(self, hp, first, x) ==
    IF self.do_projection
    THEN IF self.projection # <<>>
         THEN nn_Conv2d(hp, "projection", self.projection[1], first)
         ELSE [heap |-> Put(hp, "projection", Raise("AttributeError")),
               ref |-> Ref("projection")]
    ELSE [heap |-> hp, ref |-> x]

\* forward(x): x is a reference into the heap; bret records the call
Residual2DPreact_forward(self, x) ==
    \E first \in {LET n == nn_BatchNorm2d(bheap, "bn1_out", self.bn1, self.training, x)
                  IN  relu(n.heap, "first", n.ref)} :
    \E projection \in
         {IF ~Ok(Get(first.heap, first.ref)) THEN first
          ELSE skip_branch(self, first.heap, first.ref, x)} :
    \E x1 \in {IF ~Ok(Get(projection.heap, projection.ref)) THEN projection
               ELSE nn_Conv2d(projection.heap, "conv1_out", self.conv1, first.ref)} :
    \E x2 \in {LET n == nn_BatchNorm2d(x1.heap, "bn2_out", self.bn2, self.training, x1.ref)
                   r == relu(n.heap, "bn2_relu", n.ref)
               IN  nn_Conv2d(r.heap, "conv2_out", self.conv2, r.ref)} :
    \E out \in {torch_add(x2.heap, "out", x2.ref, projection.ref)} :
    \E end \in {out.heap} :
        /\ bheap' = Persistent(end, bheap)
        /\ bret' = <<[x |-> Get(bheap, x),
                      training |-> self.training,
                      err |-> Get(end, out.ref).err,
                      result |-> Get(end, out.ref),
                      first |-> Get(end, first.ref),
                      main |-> Get(end, x2.ref),
                      skip |-> Get(end, projection.ref)]>>

BlockConfigs ==
    [nb_in_chan : Chans, nb_out_chan : Chans, stride : 1..MaxStride,
     B : Batches, H : 1..MaxDim, W : 1..MaxDim]

\* one call forward(x), while the batch counter is below its bound
BlockForward ==
    /\ CounterValue(bheap["bn1.num_batches_tracked"]) < MaxCalls
    /\ Residual2DPreact_forward(block, Ref("x"))
    /\ UNCHANGED <<block, dimVars, lstmVars>>

\* nn.Module.eval() and nn.Module.train()
ModuleEval ==
    /\ block.training
    /\ block' = [block EXCEPT !.training = FALSE]
    /\ UNCHANGED <<bheap, bret, dimVars, lstmVars>>

ModuleTrain ==
    /\ ~block.training
    /\ block' = [block EXCEPT !.training = TRUE]
    /\ UNCHANGED <<bheap, bret, dimVars, lstmVars>>

\* ---------------------------------------------------------- specifications
\* Each specification exercises one part of the file and holds the variables
\* of the other parts at the values of a default construction.
CellIdle == ConvLSTMCellLayerNorm(<<1, 1, 1>>, 1, 1, 1, 0, 1)
BlockIdle == Residual2DPreact(1, 1, 1)

InitDim ==
    /\ calc \in [args : DimInputs, done : {FALSE}, out : {0}]
    /\ cell = CellIdle
    /\ heap = CellParams(CellIdle)
    /\ ret = <<>>
    /\ steps = 0
    /\ block = BlockIdle
    /\ bheap = BlockState(BlockIdle)
    /\ bret = <<>>

NextDim == CalcDim

SpecDim == InitDim /\ [][NextDim]_vars

InitLstm ==
    /\ \E cf \in CellConfigs, B \in Batches :
         /\ cell = ConvLSTMCellLayerNorm(<<cf.chan, cf.dim, cf.dim>>, cf.hidden_size,
                       cf.kernel_size, cf.stride, cf.padding, cf.forget_bias)
         /\ heap = CallerTensors(cell, B) @@ CellParams(cell)
    /\ ret = <<>>
    /\ steps = 0
    /\ calc = CalcIdle
    /\ block = BlockIdle
    /\ bheap = BlockState(BlockIdle)
    /\ bret = <<>>

NextLstm ==
    \/ \E xn \in InputNames : LstmForward(xn)
    \/ LstmFeed

SpecLstm == InitLstm /\ [][NextLstm]_vars

InitBlock ==
    /\ \E cf \in BlockConfigs :
         /\ block = Residual2DPreact(cf.nb_in_chan, cf.nb_out_chan, cf.stride)
         /\ bheap = ("x" :> Tensor(<<cf.B, cf.nb_in_chan, cf.H, cf.W>>, Leaf("x")))
                    @@ BlockState(block)
    /\ bret = <<>>
    /\ calc = CalcIdle
    /\ cell = CellIdle
    /\ heap = CellParams(CellIdle)
    /\ ret = <<>>
    /\ steps = 0

NextBlock == BlockForward \/ ModuleEval \/ ModuleTrain

SpecBlock == InitBlock /\ [][NextBlock]_vars

\* ------------------------------------------------------------------ claims
Numerator(a) == a.dim_size + 2 * a.padding - a.dilation * (a.kernel_size - 1) - 1

\* q is the quotient of n by d > 0 rounded toward minus infinity
IsFloor(q, n, d) == q * d <= n /\ n < (q + 1) * d

\* C1: for kernel_size >= 1, stride >= 1, padding >= 0, dilation >= 1 and any
\* dim_size, calc_conv_output_dim returns floor(numerator / stride) + 1 with
\* the quotient rounded toward minus infinity, also for a negative numerator;
\* calc_conv_output_dim(10, 3, 1, 1, 1) = 10 and
\* calc_conv_output_dim(10, 3, 2, 1, 1) = 5.
C1_OutputDimIsFlooredFormula ==
    calc.done =>
        /\ IsFloor(calc.out - 1, Numerator(calc.args), calc.args.stride)
        /\ calc.args = DimArgs(10, 3, 1, 1, 1) => calc.out = 10
        /\ calc.args = DimArgs(10, 3, 2, 1, 1) => calc.out = 5

\* a call whose numerator is negative and not a multiple of the stride
C1_Witness ==
    /\ calc.done
    /\ Numerator(calc.args) < 0
    /\ Numerator(calc.args) % calc.args.stride # 0

\* the tensors of the latest call of the cell, when it returned
Returned == ret # <<>> /\ ret[1].err = NoErr
hs == cell.hidden_size
NormalizedGroup(name, k) ==
    LayerNorm([normalized_shape |-> <<hs, ret[1].preact.shape[3], ret[1].preact.shape[4]>>],
              heap[name[1]], heap[name[2]],
              Narrow(ret[1].preact, (k - 1) * hs, k * hs))

\* C2: the forget gate that multiplies the previous cell state is always a
\* sigmoid of the layer-normalised forget group: sigmoid(LN(ft) + forget_bias)
\* when forget_bias is non-zero and sigmoid(LN(ft)) when it is zero.
C2_ForgetGateIsAlwaysSigmoid ==
    Returned =>
        LET ln_ft == NormalizedGroup(<<"ln_f_t.weight", "ln_f_t.bias">>, 2)
            gate == IF cell.forget_bias # 0
                    THEN Unary("sigmoid", AddScalar(ln_ft, cell.forget_bias))
                    ELSE Unary("sigmoid", ln_ft)
        IN  /\ ret[1].f_t = gate
            /\ ret[1].c_sum.term.args[1] = Tm("mul", <<>>, <<heap["c"].term, gate.term>>)

\* C3: for every kernel_size >= 1, odd or even, the hidden-to-hidden
\* convolution (stride 1, dilation 1, padding _hidden_padding) maps a spatial
\* size S to S.
C3_HiddenConvPreservesSize ==
    /\ cell.hh.padding = cell._hidden_padding
    /\ cell.hh.stride = 1
    /\ \A S \in 1..MaxDim :
         calc_conv_output_dim(S, cell.hh.kernel_size, cell.hh.stride,
                              cell._hidden_padding, 1) = S

\* C4: from a state pair of shape (B, hidden_size, hh_input_size,
\* hh_input_size), with every returned pair fed back, every call returns h_t
\* and c_t of spatial size hh_input_size x hh_input_size.
C4_EveryCallReturnsStateShape ==
    ret # <<>> =>
        LET state_shape == <<heap["x"].shape[1]>> \o cell.ln_cell.normalized_shape
        IN  /\ ret[1].err = NoErr
            /\ ret[1].result[1].shape = state_shape
            /\ ret[1].result[2].shape = state_shape

\* C7: forward is pure and deterministic: a call leaves x, h, c and the
\* parameters as they were, and a second call on the same x, h, c returns
\* what the first returned.
C7_ForwardIsPure ==
    [][steps' = steps =>
         /\ heap' = heap
         /\ cell' = cell
         /\ ret # <<>> => ret'[1] = ret[1]]_vars

\* two calls in a row of a cell with a forget bias, both returned
C7_Witness ==
    /\ Len(ret) = 2
    /\ ret[1].err = NoErr
    /\ ret[2].err = NoErr
    /\ cell.forget_bias # 0

\* C8: preact = ih(x) + hh(h) is split into four groups of hidden_size
\* channels in the order input, forget, output, candidate; each group goes
\* through its own LayerNorm; c_t = ln_cell(c * f_t + i_t * g_t),
\* h_t = o_t * tanh(c_t), and the result is (h_t, c_t).
C8_GatesAndCellUpdate ==
    Returned =>
        LET r == ret[1]
            ln_ft == NormalizedGroup(<<"ln_f_t.weight", "ln_f_t.bias">>, 2)
            c_t == LayerNorm(cell.ln_cell, heap["ln_cell.weight"], heap["ln_cell.bias"],
                       Elementwise("add", Elementwise("mul", heap["c"], r.f_t),
                                          Elementwise("mul", r.i_t, r.g_t)))
        IN  /\ r.i2h = Conv2d(cell.ih, <<heap["ih.weight"]>>, heap[r.x])
            /\ r.h2h = Conv2d(cell.hh, <<heap["hh.weight"]>>, heap["h"])
            /\ r.preact = Elementwise("add", r.i2h, r.h2h)
            /\ r.groups = <<<<0, hs>>, <<hs, 2 * hs>>, <<2 * hs, 3 * hs>>,
                            <<3 * hs, 4 * hs>>>>
            /\ r.i_t = Unary("sigmoid",
                             NormalizedGroup(<<"ln_i_t.weight", "ln_i_t.bias">>, 1))
            /\ r.f_t \in {ln_ft, Unary("sigmoid", AddScalar(ln_ft, cell.forget_bias))}
            /\ r.o_t = Unary("sigmoid",
                             NormalizedGroup(<<"ln_o_t.weight", "ln_o_t.bias">>, 3))
            /\ r.g_t = Unary("tanh",
                             NormalizedGroup(<<"ln_g_t.weight", "ln_g_t.bias">>, 4))
            /\ r.result[2] = c_t
            /\ r.result[1] = Elementwise("mul", r.o_t, Unary("tanh", c_t))

\* a returned call of a cell with two hidden channels
C8_Witness == Returned /\ hs = 2 /\ heap["x"].shape[1] = 2

\* C5: do_projection is true exactly when nb_in_chan # nb_out_chan or
\* stride > 1, the projection layer exists exactly when do_projection is
\* true, and forward never looks for a projection layer that is missing.
C5_ProjectionFlag ==
    /\ block.do_projection <=> (block.nb_in_chan # block.nb_out_chan \/ block.stride > 1)
    /\ block.projection # <<>> <=> block.do_projection
    /\ ("projection.weight" \in DOMAIN bheap) <=> block.do_projection
    /\ bret # <<>> => bret[1].err # "AttributeError"

\* a returned call of a block that only changes the channel count
C5_Witness ==
    /\ bret # <<>>
    /\ bret[1].err = NoErr
    /\ block.stride = 1
    /\ block.nb_in_chan # block.nb_out_chan

OutShape(x) ==
    <<x.shape[1], block.nb_out_chan,
      ((x.shape[3] - 1) \div block.stride) + 1,
      ((x.shape[4] - 1) \div block.stride) + 1>>

Count(shape) == shape[1] * shape[3] * shape[4]

\* C6 as stated: for every input (B, nb_in_chan, H, W) with H, W >= 1 forward
\* succeeds and returns shape (B, nb_out_chan, floor((H-1)/stride) + 1,
\* floor((W-1)/stride) + 1).
C6_ForwardAlwaysSucceeds ==
    bret # <<>> =>
        /\ bret[1].err = NoErr
        /\ bret[1].result.shape = OutShape(bret[1].x)

\* C6, amended: the same, for a block in evaluation mode, and for a block in
\* training mode when both the input and the output of conv1 hold more than
\* one value per channel; main branch and skip branch then have that shape.
C6_ForwardShape ==
    (/\ bret # <<>>
     /\ (bret[1].training =>
            Count(bret[1].x.shape) > 1 /\ Count(OutShape(bret[1].x)) > 1))
    => /\ bret[1].err = NoErr
       /\ bret[1].result.shape = OutShape(bret[1].x)
       /\ bret[1].main.shape = OutShape(bret[1].x)
       /\ bret[1].skip.shape = OutShape(bret[1].x)

\* a returned call in training mode with stride 2 on an odd-sized input
C6_Witness ==
    /\ bret # <<>>
    /\ bret[1].err = NoErr
    /\ bret[1].training
    /\ block.stride = 2
    /\ bret[1].x.shape[3] = 3

\* C9: forward returns main + skip with
\* main = conv2(relu(bn2(conv1(relu(bn1(x)))))); without do_projection the
\* skip is the input x itself, with it the skip is projection(relu(bn1(x))).
C9_MainPlusSkip ==
    (bret # <<>> /\ bret[1].err = NoErr) =>
        LET r == bret[1]
            bn(name, t) == BatchNorm(bheap[name[1]], bheap[name[2]], bheap[name[3]],
                                     bheap[name[4]], r.training, t)
            first == Unary("relu",
                       bn(<<"bn1.weight", "bn1.bias", "bn1.running_mean",
                            "bn1.running_var">>, r.x))
            main == Conv2d(block.conv2, <<bheap["conv2.weight"]>>,
                      Unary("relu",
                        bn(<<"bn2.weight", "bn2.bias", "bn2.running_mean",
                             "bn2.running_var">>,
                           Conv2d(block.conv1, <<bheap["conv1.weight"]>>, first))))
            skip == IF block.do_projection
                    THEN Conv2d(block.projection[1],
                                <<bheap["projection.weight"], bheap["projection.bias"]>>,
                                first)
                    ELSE r.x
        IN  /\ r.first = first
            /\ r.main = main
            /\ r.skip = skip
            /\ r.result = Elementwise("add", main, skip)

\* a returned call of a block without projection
C9_Witness == bret # <<>> /\ bret[1].err = NoErr /\ ~block.do_projection

\* C10 as stated: no forward call, in training or in evaluation mode, changes
\* any state of the module: after any sequence of calls, the latest of which
\* returned, parameters and BatchNorm buffers are what the constructor made.
C10_ModuleStateIsConstructionState ==
    (bret # <<>> /\ bret[1].err = NoErr) =>
        \A n \in DOMAIN BlockState(block) : bheap[n] = BlockState(block)[n]

\* C10, amended: a forward call never changes a parameter, an attribute or
\* its input; in evaluation mode it changes no state of the module at all;
\* in training mode it changes the buffers of bn1 and bn2 only.
C10_OnlyTrainingChangesBuffers ==
    /\ [](\A n \in BlockParamNames(block) : bheap[n] = BlockState(block)[n])
    /\ [][block' = block =>
            /\ ~block.training => bheap' = bheap
            /\ \A n \in DOMAIN bheap \ BlockBufferNames : bheap'[n] = bheap[n]]_vars

\* a returned call in evaluation mode after an earlier call in training mode
C10_Witness ==
    /\ bret # <<>>
    /\ bret[1].err = NoErr
    /\ ~bret[1].training
    /\ CounterValue(bheap["bn1.num_batches_tracked"]) > 0
    /\ CounterValue(bheap["bn2.num_batches_tracked"]) > 0

====
